---- MODULE Spec2Model ----
(***************************************************************************)
(* Model of src/cap1203.py: the bit-field codec (set_bits / get_bits) and  *)
(* the CAP1203 driver, which turns each public method into single-byte     *)
(* register reads and writes on an SMBus-like transport.                   *)
(*                                                                         *)
(* The device is a map from register address to byte.  Every public method *)
(* is one action: it runs the method's whole body against the device,      *)
(* records the bus transactions it issued (log), its return value (ret) or *)
(* the exception that left it (err), and the registers as they were when   *)
(* the call started (pre).  The transport's behaviour is an input of the   *)
(* call: the set of transaction numbers on which it raises OSError.        *)
(***************************************************************************)
EXTENDS Integers, Sequences, FiniteSets

VARIABLES regs, instance, op, arg, ret, err, log, pre, updates, setterCalls, codec, race

vars == <<regs, instance, op, arg, ret, err, log, pre, updates, setterCalls, codec, race>>

driverVars == <<regs, instance, op, arg, ret, err, log, pre, updates, setterCalls, race>>

(***************************************************************************)
(* Bounds of the model.                                                    *)
(***************************************************************************)
\* register contents are drawn from ByteSample(0..MaxSeed)
MaxSeed == 7
\* codec values are drawn from ValueSample(0..MaxValueSeed)
MaxValueSeed == 7
\* device-side register changes per behaviour
MaxDeviceUpdates == 1
\* register-modifying configuration calls per behaviour (SpecConfig)
MaxSetterCalls == 2

(***************************************************************************)
(* Program constants.                                                      *)
(***************************************************************************)
ADDRESS == 40
MAIN_CONTROL == 0
GENERAL_STATUS == 2
SENSOR_INPUT_STATUS == 3
SENSITIVITY_CONTROL == 31
CALIBRATION_ACTIVATE_AND_STATUS == 38
INTERRUPT_ENABLE == 39
BASE_COUNT_OUT == 46
POWER_BUTTON == 96
POWER_BUTTON_CONFIG == 97
ProbeAttempts == 5
RESET_COMMAND == 7

Registers ==
    { MAIN_CONTROL, GENERAL_STATUS, SENSOR_INPUT_STATUS, SENSITIVITY_CONTROL,
      CALIBRATION_ACTIVATE_AND_STATUS, INTERRUPT_ENABLE, BASE_COUNT_OUT,
      POWER_BUTTON, POWER_BUTTON_CONFIG }

\* registers whose content the sensor itself drives
StatusRegisters ==
    { GENERAL_STATUS, SENSOR_INPUT_STATUS, CALIBRATION_ACTIVATE_AND_STATUS,
      BASE_COUNT_OUT }

Byte == 0..255

\* Sampled register contents: an odd stride, so that the first eight samples
\* carry all eight values of the low three bits.
ByteSample(k) == (k * 83) % 256

\* Sampled codec values, up to nine bits wide (wider than any field).
ValueSample(k) == (k * 73) % 512

(***************************************************************************)
(* Python integer arithmetic: unbounded two's-complement bit operations.   *)
(***************************************************************************)
RECURSIVE Pow2(_)
Pow2(n) == IF n = 0 THEN 1 ELSE 2 * Pow2(n - 1)

RECURSIVE BitAnd(_, _)
BitAnd(a, b) ==
    IF a = 0 \/ b = 0 THEN 0
    ELSE IF a = -1 THEN b
    ELSE IF b = -1 THEN a
    ELSE ((a % 2) * (b % 2)) + 2 * BitAnd(a \div 2, b \div 2)

RECURSIVE BitOr(_, _)
BitOr(a, b) ==
    IF a = 0 THEN b
    ELSE IF b = 0 THEN a
    ELSE IF a = -1 \/ b = -1 THEN -1
    ELSE (IF (a % 2) + (b % 2) > 0 THEN 1 ELSE 0) + 2 * BitOr(a \div 2, b \div 2)

BitNot(a) == (-a) - 1

ShiftLeft(a, n) == a * Pow2(n)

ShiftRight(a, n) == a \div Pow2(n)

(***************************************************************************)
(* Python values: the driver's arguments and results are bools, ints and   *)
(* members of the Pad / Sensitivity / PowerTime enumerations.              *)
(***************************************************************************)
PyNone == [type |-> "NoneType", v |-> 0]
PyBool(b) == [type |-> "bool", v |-> b]
PyIntOf(n) == [type |-> "int", v |-> n]

PadNames == {"Left", "Middle", "Right"}

PadBit(p) == CASE p = "Left" -> 1 [] p = "Middle" -> 2 [] p = "Right" -> 4

RECURSIVE SumBits(_)
SumBits(S) ==
    IF S = {} THEN 0
    ELSE LET p == CHOOSE x \in S : TRUE IN PadBit(p) + SumBits(S \ {p})

\* a Pad member, as the set of the pads whose flag it carries
PadOf(S) == [type |-> "Pad", v |-> S]

SensitivityNames == <<"x128", "x64", "x32", "x16", "x8", "x4", "x2", "x1">>
PowerTimeNames == <<"t280ms", "t560ms", "t1120ms", "t2240ms">>

SensitivityOf(name) == [type |-> "Sensitivity", v |-> name]
PowerTimeOf(name) == [type |-> "PowerTime", v |-> name]

IndexOf(seq, x) == CHOOSE i \in 1..Len(seq) : seq[i] = x

\* int(x): bool is a subclass of int, the enumerations are IntFlag / IntEnum
IntValue(x) ==
    CASE x.type = "bool" -> IF x.v THEN 1 ELSE 0
      [] x.type = "int" -> x.v
      [] x.type = "Pad" -> SumBits(x.v)
      [] x.type = "Sensitivity" -> IndexOf(SensitivityNames, x.v) - 1
      [] x.type = "PowerTime" -> IndexOf(PowerTimeNames, x.v) - 1

\* Python's == between numbers
PyEq(x, y) == IntValue(x) = IntValue(y)

\* Python truthiness of a number
Truthy(x) == IntValue(x) # 0

\* Pad(n): the member (or cached composite member) whose value is n
Pad(x) == PadOf({p \in PadNames : BitAnd(IntValue(x), PadBit(p)) = PadBit(p)})

\* Sensitivity(n), PowerTime(n): lookup of an enumeration member by value
Sensitivity(x) == SensitivityOf(SensitivityNames[IntValue(x) + 1])
PowerTime(x) == PowerTimeOf(PowerTimeNames[IntValue(x) + 1])

\* "a is not b" if every Pad(n) call built a fresh object
PadIsNot_uncached(a, b) == TRUE

\* "a is not b" for Pad members: Pad(n) returns the one cached member per
\* value, so two Pad members are the same object iff their values are equal
PadIsNot(a, b) == a.v # b.v

\* "p in res" for Pad members: Flag.__contains__
PadIn(p, res) == BitAnd(IntValue(p), IntValue(res)) = IntValue(p)

\* "a | b" for Pad members
PadUnion(a, b) == Pad(PyIntOf(BitOr(IntValue(a), IntValue(b))))

(***************************************************************************)
(* The bit-field codec.                                                    *)
(***************************************************************************)
\* set_bits that ORs the new value into the field without clearing it first
set_bits_no_clear(register, value, index, length) ==
    LET mask == Pow2(length) - 1
    IN  BitOr(register, ShiftLeft(BitAnd(mask, value), index))

\* set_bits that shifts the value into place without masking it to the field
set_bits_unmasked(register, value, index, length) ==
    LET mask == Pow2(length) - 1
        cleared == BitAnd(register, BitNot(ShiftLeft(mask, index)))
    IN  BitOr(cleared, ShiftLeft(value, index))

set_bits(register, value, index, length) ==
    LET mask == Pow2(length) - 1
        cleared == BitAnd(register, BitNot(ShiftLeft(mask, index)))
    IN  BitOr(cleared, ShiftLeft(BitAnd(mask, value), index))

get_bits(register, index, length) ==
    LET result == BitAnd(ShiftRight(register, index), Pow2(length) - 1)
    IN  IF length = 1 THEN PyBool(result = 1) ELSE PyIntOf(result)

(***************************************************************************)
(* The transport.  A call runs in a context c: the device registers, the   *)
(* transactions issued so far, the transaction numbers on which the        *)
(* transport raises OSError (bad), the exception now propagating (err) and *)
(* the value of the last expression evaluated (val).  A step of a method   *)
(* reached while an exception propagates does nothing.                     *)
(***************************************************************************)
NoError == "none"
OSError == "OSError"
InvalidAddress == "ValueError: Invalid Address"
InvalidBus == "ValueError: Invalid bus"
NotConnected == "RuntimeError: Cannot connect to CAP1203"

Ctx(r, bad) == [regs |-> r, log |-> <<>>, bad |-> bad, err |-> NoError, val |-> PyNone]

Tx(kind, register, value, ok) == [kind |-> kind, reg |-> register, val |-> value, ok |-> ok]

Return(c, value) == IF c.err = NoError THEN [c EXCEPT !.val = value] ELSE c

\* bus.read_byte(address): the probe read; its data is ignored
read_byte(c) ==
    IF c.err # NoError THEN c
    ELSE IF (Len(c.log) + 1) \in c.bad
         THEN [c EXCEPT !.log = Append(@, Tx("read_byte", -1, -1, FALSE)), !.err = OSError]
         ELSE [c EXCEPT !.log = Append(@, Tx("read_byte", -1, -1, TRUE))]

\* bus.read_i2c_block_data(address, register)[0]
\* _read_register that reads a second time when the first read raises
_read_register_retry(c, register) ==
    IF c.err # NoError THEN c
    ELSE IF (Len(c.log) + 1) \in c.bad
         THEN LET failed == [c EXCEPT !.log = Append(@, Tx("read", register, -1, FALSE))]
              IN  IF (Len(failed.log) + 1) \in failed.bad
                  THEN [failed EXCEPT !.log = Append(@, Tx("read", register, -1, FALSE)),
                                      !.err = OSError]
                  ELSE [failed EXCEPT !.log = Append(@, Tx("read", register,
                                                           c.regs[register], TRUE)),
                                      !.val = PyIntOf(c.regs[register])]
         ELSE [c EXCEPT !.log = Append(@, Tx("read", register, c.regs[register], TRUE)),
                        !.val = PyIntOf(c.regs[register])]

_read_register(c, register) ==
    IF c.err # NoError THEN c
    ELSE IF (Len(c.log) + 1) \in c.bad
         THEN [c EXCEPT !.log = Append(@, Tx("read", register, -1, FALSE)), !.err = OSError]
         ELSE [c EXCEPT !.log = Append(@, Tx("read", register, c.regs[register], TRUE)),
                        !.val = PyIntOf(c.regs[register])]

\* bus.write_i2c_block_data(address, register, [value])
_write_register(c, register, value) ==
    IF c.err # NoError THEN c
    ELSE IF (Len(c.log) + 1) \in c.bad
         THEN [c EXCEPT !.log = Append(@, Tx("write", register, value, FALSE)), !.err = OSError]
         ELSE [c EXCEPT !.log = Append(@, Tx("write", register, value, TRUE)),
                        !.regs = [c.regs EXCEPT ![register] = value],
                        !.val = PyNone]

_read_bits_from_register(c, register, index, length) ==
    LET r == _read_register(c, register)
    IN  IF r.err # NoError THEN r
        ELSE Return(r, get_bits(IntValue(r.val), index, length))

\* value is a bool, an int or an enumeration member; "mask & value" takes its
\* integer value
\* _write_bits_to_register that writes the new field without reading the
\* register first
_write_bits_to_register_blind(c, register, value, index, length) ==
    IF c.err # NoError THEN c
    ELSE _write_register(c, register, set_bits(0, IntValue(value), index, length))

_write_bits_to_register(c, register, value, index, length) ==
    LET r == _read_register(c, register)
    IN  IF r.err # NoError THEN r
        ELSE _write_register(r, register,
                             set_bits(IntValue(r.val), IntValue(value), index, length))

\* _write_bits_to_register one bus transaction at a time, as two callers that
\* share the bus see it: the read of the register, and the write of the byte
\* computed from the value that read returned (old)
read_half(c, register) == _read_register(c, register)

\* a write half that builds the byte from the new field alone
write_half_blind(c, register, old, value, index, length) ==
    _write_register(c, register, set_bits(0, IntValue(value), index, length))

write_half(c, register, old, value, index, length) ==
    _write_register(c, register, set_bits(old, IntValue(value), index, length))

(***************************************************************************)
(* The driver's methods.                                                   *)
(***************************************************************************)
\* a probe that issues all five reads and only then answers
RECURSIVE is_connected_from_exhaustive(_, _)
is_connected_from_exhaustive(c, i) ==
    IF i = ProbeAttempts THEN Return(c, PyBool(c.val.type = "bool"))
    ELSE LET r == read_byte(c)
         IN  IF r.err = OSError
             THEN is_connected_from_exhaustive([r EXCEPT !.err = NoError], i + 1)
             ELSE is_connected_from_exhaustive(Return(r, PyBool(TRUE)), i + 1)

RECURSIVE is_connected_from(_, _)
is_connected_from(c, i) ==
    IF i = ProbeAttempts THEN Return(c, PyBool(FALSE))
    ELSE LET r == read_byte(c)
         IN  IF r.err = OSError
             THEN is_connected_from([r EXCEPT !.err = NoError], i + 1)
             ELSE Return(r, PyBool(TRUE))

\* a probe that gives up one attempt early
is_connected_four(c) == is_connected_from(c, 1)

is_connected(c) == is_connected_from(c, 0)

set_sensitivity(c, sensitivity) ==
    Return(_write_bits_to_register(c, SENSITIVITY_CONTROL, sensitivity, 4, 3), PyNone)

\* get_sensitivity that answers from the level the constructor set, without
\* a bus read
get_sensitivity_cached(c) == Return(c, SensitivityOf("x2"))

get_sensitivity(c) ==
    LET r == _read_bits_from_register(c, SENSITIVITY_CONTROL, 4, 3)
    IN  IF r.err # NoError THEN r ELSE Return(r, Sensitivity(r.val))

\* set_interrupt_setting that adds the pads to those already enabled
set_interrupt_setting_merge(c, enable) ==
    LET pad == IF enable.type = "Pad" THEN enable
               ELSE Pad(PyIntOf(7 * IntValue(enable)))
        r == _read_register(c, INTERRUPT_ENABLE)
    IN  IF r.err # NoError THEN r
        ELSE Return(_write_register(r, INTERRUPT_ENABLE,
                                    BitOr(IntValue(r.val), IntValue(pad))),
                    PyNone)

set_interrupt_setting(c, enable) ==
    LET pad == IF enable.type = "Pad" THEN enable
               ELSE Pad(PyIntOf(7 * IntValue(enable)))
    IN  Return(_write_bits_to_register(c, INTERRUPT_ENABLE, pad, 0, 3), PyNone)

get_interrupt_setting(c) ==
    LET r == _read_bits_from_register(c, INTERRUPT_ENABLE, 0, 3)
    IN  IF r.err # NoError THEN r ELSE Return(r, Pad(r.val))

\* clear_interrupt that inverts the latch bit instead of clearing it
clear_interrupt_toggle(c) ==
    LET r == _read_register(c, MAIN_CONTROL)
    IN  IF r.err # NoError THEN r
        ELSE Return(_write_register(r, MAIN_CONTROL,
                                    set_bits(IntValue(r.val), 1 - (IntValue(r.val) % 2), 0, 1)),
                    PyNone)

clear_interrupt(c) ==
    Return(_write_bits_to_register(c, MAIN_CONTROL, PyBool(FALSE), 0, 1), PyNone)

check_main_control(c) == Return(_read_register(c, MAIN_CONTROL), PyNone)

check_status(c) ==
    LET r1 == _read_register(c, GENERAL_STATUS)
        r2 == _read_bits_from_register(r1, CALIBRATION_ACTIVATE_AND_STATUS, 0, 3)
        r3 == _read_bits_from_register(r2, BASE_COUNT_OUT, 0, 3)
    IN  IF r3.err # NoError THEN r3
        ELSE LET bc_pad == Pad(r2.val)
                 error_pad == Pad(r3.val)
             IN  Return(r3, PadUnion(bc_pad, error_pad))

\* reset that merges the command into the register's current content
reset_merge(c) ==
    Return(_write_bits_to_register(c, CALIBRATION_ACTIVATE_AND_STATUS,
                                   PyIntOf(RESET_COMMAND), 0, 3),
           PyNone)

reset(c) ==
    Return(_write_register(c, CALIBRATION_ACTIVATE_AND_STATUS, RESET_COMMAND), PyNone)

\* check_touched that clears the latch when a pad is touched
check_touched_clearing(c) ==
    LET r == _read_bits_from_register(c, SENSOR_INPUT_STATUS, 0, 3)
    IN  IF r.err # NoError THEN r
        ELSE IF Truthy(r.val) THEN Return(clear_interrupt(r), Pad(r.val))
             ELSE Return(r, Pad(r.val))

check_touched(c) ==
    LET r == _read_bits_from_register(c, SENSOR_INPUT_STATUS, 0, 3)
    IN  IF r.err # NoError THEN r ELSE Return(r, Pad(r.val))

get_touched(c) ==
    LET r == check_touched(c)
    IN  IF r.err # NoError THEN r
        ELSE IF PadIsNot(r.val, Pad(PyIntOf(0)))
             THEN Return(clear_interrupt(r), r.val)
             ELSE r

\* is_touched (index 0) and is_power_button_touched (index 4)
status_bit_touched(c, index) ==
    LET r == _read_bits_from_register(c, GENERAL_STATUS, index, 1)
    IN  IF r.err # NoError THEN r
        ELSE IF Truthy(r.val)
             THEN Return(clear_interrupt(r), PyBool(TRUE))
             ELSE Return(r, PyBool(FALSE))

is_touched(c) == status_bit_touched(c, 0)

\* is_power_button_touched reading the aggregate touch flag
is_power_button_touched_bit0(c) == status_bit_touched(c, 0)

is_power_button_touched(c) == status_bit_touched(c, 4)

\* a per-pad query that answers for any touched pad
pad_touched_any(c, p) ==
    LET r == check_touched(c)
    IN  IF r.err # NoError THEN r
        ELSE IF Truthy(r.val)
             THEN Return(clear_interrupt(r), PyBool(TRUE))
             ELSE Return(r, PyBool(FALSE))

\* is_left_touched, is_right_touched, is_middle_touched
pad_touched(c, p) ==
    LET r == check_touched(c)
    IN  IF r.err # NoError THEN r
        ELSE IF PadIn(PadOf({p}), r.val)
             THEN Return(clear_interrupt(r), PyBool(TRUE))
             ELSE Return(r, PyBool(FALSE))

is_left_touched(c) == pad_touched(c, "Left")

is_right_touched(c) == pad_touched(c, "Right")

is_middle_touched(c) == pad_touched(c, "Middle")

is_right_swipe(c) == Return(c, PyBool(FALSE))

is_left_swipe(c) == Return(c, PyBool(FALSE))

\* set_power_button_pad that writes the byte back as it was read
set_power_button_pad_discard(c, pad) ==
    LET r == _read_register(c, POWER_BUTTON)
    IN  IF r.err # NoError THEN r
        ELSE Return(_write_register(r, POWER_BUTTON, IntValue(r.val)), PyNone)

set_power_button_pad(c, pad) ==
    Return(_write_bits_to_register(c, POWER_BUTTON, pad, 0, 3), PyNone)

get_power_button_pad(c) ==
    LET r == _read_bits_from_register(c, POWER_BUTTON, 0, 3)
    IN  IF r.err # NoError THEN r ELSE Return(r, Pad(r.val))

set_power_button_time(c, time) ==
    Return(_write_bits_to_register(c, POWER_BUTTON_CONFIG, time, 0, 2), PyNone)

get_power_button_time(c) ==
    LET r == _read_bits_from_register(c, POWER_BUTTON_CONFIG, 0, 2)
    IN  IF r.err # NoError THEN r ELSE Return(r, PowerTime(r.val))

set_power_button(c, enabled) ==
    Return(_write_bits_to_register(c, POWER_BUTTON_CONFIG, enabled, 2, 1), PyNone)

get_power_button_setting(c) == _read_bits_from_register(c, POWER_BUTTON_CONFIG, 2, 1)

\* construction that leaves the interrupt latch as it found it
init_no_clear(c, bus, address) ==
    IF address # ADDRESS THEN [c EXCEPT !.err = InvalidAddress]
    ELSE IF bus = "None" THEN [c EXCEPT !.err = InvalidBus]
    ELSE LET p == is_connected(c)
         IN  IF Truthy(p.val)
             THEN Return(set_interrupt_setting(
                             set_sensitivity(p, SensitivityOf("x2")),
                             PyBool(TRUE)),
                         PyNone)
             ELSE [p EXCEPT !.err = NotConnected]

\* construction that probes the device before it validates the address
init_probe_first(c, bus, address) ==
    IF bus = "None" THEN [c EXCEPT !.err = InvalidBus]
    ELSE LET p == is_connected(c)
         IN  IF address # ADDRESS THEN [p EXCEPT !.err = InvalidAddress]
             ELSE IF Truthy(p.val)
             THEN Return(clear_interrupt(
                             set_interrupt_setting(
                                 set_sensitivity(p, SensitivityOf("x2")),
                                 PyBool(TRUE))),
                         PyNone)
             ELSE [p EXCEPT !.err = NotConnected]

\* CAP1203(bus, address)
\* a constructor that enables the interrupts before it sets the sensitivity
init_reordered(c, bus, address) ==
    IF address # ADDRESS THEN [c EXCEPT !.err = InvalidAddress]
    ELSE IF bus = "None" THEN [c EXCEPT !.err = InvalidBus]
    ELSE LET p == is_connected(c)
         IN  IF Truthy(p.val)
             THEN Return(clear_interrupt(
                             set_sensitivity(
                                 set_interrupt_setting(p, PyBool(TRUE)),
                                 SensitivityOf("x2"))),
                         PyNone)
             ELSE [p EXCEPT !.err = NotConnected]

init(c, bus, address) ==
    IF address # ADDRESS THEN [c EXCEPT !.err = InvalidAddress]
    ELSE IF bus = "None" THEN [c EXCEPT !.err = InvalidBus]
    ELSE LET p == is_connected(c)
         IN  IF Truthy(p.val)
             THEN Return(clear_interrupt(
                             set_interrupt_setting(
                                 set_sensitivity(p, SensitivityOf("x2")),
                                 PyBool(TRUE))),
                         PyNone)
             ELSE [p EXCEPT !.err = NotConnected]

(***************************************************************************)
(* State machine.  A call of a method is one action; the transport's       *)
(* faults are an input of the call.                                        *)
(***************************************************************************)
\* The transactions of a call on which the transport raises.  A method stops
\* at the first transaction that raises, so the plans that differ are: none
\* raises, or the j-th does, for each of the n transactions it can issue.
Faults(n) == {{}} \cup {{j} : j \in 1..n}

\* The probe tolerates errors: its first k reads raise, and of the (at most n)
\* transactions after the read that succeeds, none or the j-th raises.
ProbeFaults(n) ==
    {(1..kj[1]) \cup (IF kj[2] = 0 THEN {} ELSE {kj[1] + 1 + kj[2]}) :
        kj \in (0..ProbeAttempts) \X (0..n)}

\* the arguments the program's types allow
PadSets == {PadOf(S) : S \in SUBSET PadNames}
Bools == {PyBool(b) : b \in BOOLEAN}
Sensitivities == {SensitivityOf(SensitivityNames[i]) : i \in 1..Len(SensitivityNames)}
PowerTimes == {PowerTimeOf(PowerTimeNames[i]) : i \in 1..Len(PowerTimeNames)}
Addresses == {ADDRESS, ADDRESS + 1, 0}
Buses == {"SMBus", "None"}

\* the two setters of the power button configuration register, each run by
\* its own caller
Threads == {"set_power_button_time", "set_power_button"}

RaceIdle == [mode |-> "off", pc |-> [t \in Threads |-> "none"],
             old |-> [t \in Threads |-> 0], time |-> PyNone, enabled |-> PyNone]

CodecIdle == [stage |-> "idle", register |-> 0, value |-> 0, index |-> 0, length |-> 1,
              out |-> 0, back |-> PyNone]

Idle == op = "none"

\* the observable outcome of running a method to its end in context c
Outcome(name, a, c) ==
    /\ Idle
    /\ op' = name
    /\ arg' = a
    /\ ret' = IF c.err = NoError THEN c.val ELSE PyNone
    /\ err' = c.err
    /\ log' = c.log
    /\ regs' = c.regs
    /\ pre' = regs
    /\ UNCHANGED <<updates, codec, race>>

\* a method call on the constructed driver
Call(name, a, c) ==
    /\ instance
    /\ Outcome(name, a, c)
    /\ UNCHANGED <<instance, setterCalls>>

\* a call of a register-modifying configuration method
SetterCall(name, a, c) ==
    /\ instance
    /\ setterCalls < MaxSetterCalls
    /\ setterCalls' = setterCalls + 1
    /\ Outcome(name, a, c)
    /\ UNCHANGED instance

Init ==
    /\ \E k \in 0..MaxSeed : regs = [r \in Registers |-> ByteSample(k)]
    /\ instance = FALSE
    /\ op = "none"
    /\ arg = PyNone
    /\ ret = PyNone
    /\ err = NoError
    /\ log = <<>>
    /\ pre = regs
    /\ updates = 0
    /\ setterCalls = 0
    /\ codec = CodecIdle
    /\ race = RaceIdle

\* The caller has taken the result (or the exception) of the last call; the
\* driver is idle until the next call.
Resume ==
    /\ ~Idle
    /\ op' = "none"
    /\ arg' = PyNone
    /\ ret' = PyNone
    /\ err' = NoError
    /\ log' = <<>>
    /\ pre' = regs
    /\ UNCHANGED <<regs, instance, updates, setterCalls, codec, race>>

\* CAP1203(bus, address): the object exists only if __init__ returns
Construct ==
    /\ ~instance
    /\ \E address \in Addresses, bus \in Buses, bad \in ProbeFaults(6) :
           LET c == init(Ctx(regs, bad), bus, address)
           IN  /\ Outcome("__init__", [bus |-> bus, address |-> address], c)
               /\ instance' = (c.err = NoError)
               /\ UNCHANGED setterCalls

\* every pattern of success and error on the five probe reads
IsConnected ==
    \E bad \in SUBSET (1..ProbeAttempts) :
        Call("is_connected", PyNone, is_connected(Ctx(regs, bad)))

CheckMainControl ==
    \E bad \in Faults(1) :
        Call("check_main_control", PyNone, check_main_control(Ctx(regs, bad)))

CheckStatus ==
    \E bad \in Faults(3) :
        Call("check_status", PyNone, check_status(Ctx(regs, bad)))

Reset ==
    \E bad \in Faults(1) :
        SetterCall("reset", PyNone, reset(Ctx(regs, bad)))

SetSensitivity ==
    \E sensitivity \in Sensitivities, bad \in Faults(2) :
        SetterCall("set_sensitivity", sensitivity,
                   set_sensitivity(Ctx(regs, bad), sensitivity))

GetSensitivity ==
    \E bad \in Faults(1) :
        Call("get_sensitivity", PyNone, get_sensitivity(Ctx(regs, bad)))

SetInterruptSetting ==
    \E enable \in PadSets \cup Bools, bad \in Faults(2) :
        SetterCall("set_interrupt_setting", enable,
                   set_interrupt_setting(Ctx(regs, bad), enable))

GetInterruptSetting ==
    \E bad \in Faults(1) :
        Call("get_interrupt_setting", PyNone, get_interrupt_setting(Ctx(regs, bad)))

ClearInterrupt ==
    \E bad \in Faults(2) :
        Call("clear_interrupt", PyNone, clear_interrupt(Ctx(regs, bad)))

CheckTouched ==
    \E bad \in Faults(1) :
        Call("check_touched", PyNone, check_touched(Ctx(regs, bad)))

GetTouched ==
    \E bad \in Faults(3) :
        Call("get_touched", PyNone, get_touched(Ctx(regs, bad)))

IsTouched ==
    \E bad \in Faults(3) :
        Call("is_touched", PyNone, is_touched(Ctx(regs, bad)))

IsLeftTouched ==
    \E bad \in Faults(3) :
        Call("is_left_touched", PyNone, is_left_touched(Ctx(regs, bad)))

IsRightTouched ==
    \E bad \in Faults(3) :
        Call("is_right_touched", PyNone, is_right_touched(Ctx(regs, bad)))

IsMiddleTouched ==
    \E bad \in Faults(3) :
        Call("is_middle_touched", PyNone, is_middle_touched(Ctx(regs, bad)))

IsRightSwipe == Call("is_right_swipe", PyNone, is_right_swipe(Ctx(regs, {})))

IsLeftSwipe == Call("is_left_swipe", PyNone, is_left_swipe(Ctx(regs, {})))

SetPowerButtonPad ==
    \E pad \in PadSets, bad \in Faults(2) :
        SetterCall("set_power_button_pad", pad,
                   set_power_button_pad(Ctx(regs, bad), pad))

GetPowerButtonPad ==
    \E bad \in Faults(1) :
        Call("get_power_button_pad", PyNone, get_power_button_pad(Ctx(regs, bad)))

SetPowerButtonTime ==
    \E time \in PowerTimes, bad \in Faults(2) :
        SetterCall("set_power_button_time", time,
                   set_power_button_time(Ctx(regs, bad), time))

GetPowerButtonTime ==
    \E bad \in Faults(1) :
        Call("get_power_button_time", PyNone, get_power_button_time(Ctx(regs, bad)))

SetPowerButton ==
    \E enabled \in Bools, bad \in Faults(2) :
        SetterCall("set_power_button", enabled,
                   set_power_button(Ctx(regs, bad), enabled))

GetPowerButtonSetting ==
    \E bad \in Faults(1) :
        Call("get_power_button_setting", PyNone,
             get_power_button_setting(Ctx(regs, bad)))

IsPowerButtonTouched ==
    \E bad \in Faults(3) :
        Call("is_power_button_touched", PyNone,
             is_power_button_touched(Ctx(regs, bad)))

\* Between two calls the sensor changes one of the status registers it
\* drives: a touch or a release, a status flag, a calibration result.
DeviceUpdate ==
    /\ Idle
    /\ instance
    /\ updates < MaxDeviceUpdates
    /\ \E r \in StatusRegisters, k \in 0..MaxSeed :
           /\ ByteSample(k) # regs[r]
           /\ regs' = [regs EXCEPT ![r] = ByteSample(k)]
           /\ pre' = regs'
    /\ updates' = updates + 1
    /\ UNCHANGED <<instance, op, arg, ret, err, log, setterCalls, codec, race>>

\* Between two calls the sensor raises its interrupt latch, bit 0 of the main
\* control register.
RaiseInterrupt ==
    /\ Idle
    /\ instance
    /\ updates < MaxDeviceUpdates
    /\ regs[MAIN_CONTROL] % 2 = 0
    /\ regs' = [regs EXCEPT ![MAIN_CONTROL] = @ + 1]
    /\ pre' = regs'
    /\ updates' = updates + 1
    /\ UNCHANGED <<instance, op, arg, ret, err, log, setterCalls, codec, race>>

\* Construction, the touch and status queries, the getters and the latch clear,
\* on a device whose status registers change under the driver.
Next ==
    \/ Construct
    \/ IsConnected
    \/ CheckMainControl
    \/ CheckStatus
    \/ GetSensitivity
    \/ GetInterruptSetting
    \/ ClearInterrupt
    \/ CheckTouched
    \/ GetTouched
    \/ IsTouched
    \/ IsLeftTouched
    \/ IsRightTouched
    \/ IsMiddleTouched
    \/ IsRightSwipe
    \/ IsLeftSwipe
    \/ GetPowerButtonPad
    \/ GetPowerButtonTime
    \/ GetPowerButtonSetting
    \/ IsPowerButtonTouched
    \/ DeviceUpdate
    \/ RaiseInterrupt
    \/ Resume

Spec == Init /\ [][Next]_vars

\* Construction and the configuration methods: setters, getters, reset and the
\* latch clear.
NextConfig ==
    \/ Construct
    \/ Reset
    \/ SetSensitivity
    \/ GetSensitivity
    \/ SetInterruptSetting
    \/ GetInterruptSetting
    \/ ClearInterrupt
    \/ SetPowerButtonPad
    \/ GetPowerButtonPad
    \/ SetPowerButtonTime
    \/ GetPowerButtonTime
    \/ SetPowerButton
    \/ GetPowerButtonSetting
    \/ Resume

SpecConfig == Init /\ [][NextConfig]_vars

(***************************************************************************)
(* The codec on its own: set_bits applied to an input, then get_bits       *)
(* applied to the result at the same field.                                *)
(***************************************************************************)
Fields == {f \in (0..7) \X (1..8) : f[1] + f[2] <= 8}

InitCodec ==
    /\ regs = [r \in Registers |-> 0]
    /\ instance = FALSE
    /\ op = "none"
    /\ arg = PyNone
    /\ ret = PyNone
    /\ err = NoError
    /\ log = <<>>
    /\ pre = regs
    /\ updates = 0
    /\ setterCalls = 0
    /\ \E b \in Byte, k \in 0..MaxValueSeed, f \in Fields :
           codec = [stage |-> "input", register |-> b, value |-> ValueSample(k),
                    index |-> f[1], length |-> f[2], out |-> 0, back |-> PyNone]
    /\ race = RaceIdle

SetBits ==
    /\ codec.stage = "input"
    /\ codec' = [codec EXCEPT !.stage = "set",
                              !.out = set_bits(codec.register, codec.value,
                                               codec.index, codec.length)]
    /\ UNCHANGED driverVars

GetBits ==
    /\ codec.stage = "set"
    /\ codec' = [codec EXCEPT !.stage = "got",
                              !.back = get_bits(codec.out, codec.index, codec.length)]
    /\ UNCHANGED driverVars

NextCodec ==
    \/ SetBits
    \/ GetBits

SpecCodec == InitCodec /\ [][NextCodec]_vars

(***************************************************************************)
(* Two callers sharing one driver: one runs set_power_button_time, the     *)
(* other set_power_button, both on the power button configuration          *)
(* register.  Each call is two steps, its read and its write, and the      *)
(* steps of the two calls interleave freely (mode "interleaved") or, when  *)
(* the callers hold a lock around each call, a call reads only while the   *)
(* other is not between its read and its write (mode "serialized").  The   *)
(* transport is responsive.                                                *)
(***************************************************************************)
\* the field each setter passes to _write_bits_to_register
RaceField(t) ==
    IF t = "set_power_button_time" THEN [index |-> 0, length |-> 2]
    ELSE [index |-> 2, length |-> 1]

RaceValue(t) == IF t = "set_power_button_time" THEN race.time ELSE race.enabled

StartRace ==
    /\ Idle
    /\ instance
    /\ race.mode = "off"
    /\ \E mode \in {"interleaved", "serialized"}, time \in PowerTimes, enabled \in Bools :
           race' = [RaceIdle EXCEPT !.mode = mode, !.time = time, !.enabled = enabled,
                                    !.pc = [t \in Threads |-> "called"]]
    /\ UNCHANGED <<regs, instance, op, arg, ret, err, log, pre, updates, setterCalls, codec>>

RaceRead ==
    \E t \in Threads :
        /\ race.pc[t] = "called"
        /\ race.mode = "serialized" => \A u \in Threads : race.pc[u] # "read"
        /\ LET r == read_half(Ctx(regs, {}), POWER_BUTTON_CONFIG)
           IN  /\ race' = [race EXCEPT !.pc[t] = "read", !.old[t] = IntValue(r.val)]
               /\ log' = log \o r.log
        /\ UNCHANGED <<regs, instance, op, arg, ret, err, pre, updates, setterCalls, codec>>

RaceWrite ==
    \E t \in Threads :
        /\ race.pc[t] = "read"
        /\ LET r == write_half(Ctx(regs, {}), POWER_BUTTON_CONFIG, race.old[t],
                               RaceValue(t), RaceField(t).index, RaceField(t).length)
           IN  /\ regs' = r.regs
               /\ log' = log \o r.log
               /\ race' = [race EXCEPT !.pc[t] = "returned"]
        /\ UNCHANGED <<instance, op, arg, ret, err, pre, updates, setterCalls, codec>>

NextRace ==
    \/ Construct
    \/ Resume
    \/ StartRace
    \/ RaceRead
    \/ RaceWrite

SpecRace == Init /\ [][NextRace]_vars

(***************************************************************************)
(* The getters against a device whose registers change between calls: any  *)
(* register, configuration registers included, may take another content    *)
(* while no call is in progress (a device reset, another bus master).      *)
(***************************************************************************)
RegisterChange ==
    /\ Idle
    /\ instance
    /\ updates < MaxDeviceUpdates
    /\ \E r \in Registers, k \in 0..MaxSeed :
           /\ ByteSample(k) # regs[r]
           /\ regs' = [regs EXCEPT ![r] = ByteSample(k)]
           /\ pre' = regs'
    /\ updates' = updates + 1
    /\ UNCHANGED <<instance, op, arg, ret, err, log, setterCalls, codec, race>>

NextGetters ==
    \/ Construct
    \/ GetSensitivity
    \/ GetInterruptSetting
    \/ CheckTouched
    \/ GetPowerButtonPad
    \/ GetPowerButtonTime
    \/ GetPowerButtonSetting
    \/ RegisterChange
    \/ Resume

SpecGetters == Init /\ [][NextGetters]_vars

(***************************************************************************)
(* Properties.  The register contents they refer to are decoded here by    *)
(* division and remainder, independently of the codec.                     *)
(***************************************************************************)
BitAt(b, i) == (b \div Pow2(i)) % 2

FieldAt(b, i, w) == (b \div Pow2(i)) % Pow2(w)

\* the pad set held in bits 0..2 of a byte
PadsIn(b) == {p \in PadNames : (b \div PadBit(p)) % 2 = 1}

Ok == err = NoError

WriteTxs == {i \in 1..Len(log) : log[i].kind = "write"}

RegisterTxs == {i \in 1..Len(log) : log[i].kind \in {"read", "write"}}

ProbeTxs == {i \in 1..Len(log) : log[i].kind = "read_byte"}

\* the call issued exactly one write: main control, as read, with bit 0 cleared
ClearedLatch ==
    /\ Cardinality(WriteTxs) = 1
    /\ \A i \in WriteTxs :
           /\ log[i].reg = MAIN_CONTROL
           /\ log[i].ok
           /\ log[i].val % 2 = 0
    /\ BitAt(regs[MAIN_CONTROL], 0) = 0

\* a query that clears the latch exactly when its answer is positive
ClearsIffPositive(positive) ==
    /\ positive => ClearedLatch
    /\ ~positive => WriteTxs = {} /\ regs = pre

Constructing == op = "__init__" /\ arg.address = ADDRESS /\ arg.bus = "SMBus"

\* C1: for every initial register content, constructing the driver with
\* address 0x28 on a responsive transport (a probe read succeeds, no register
\* transaction raises) completes without error, and afterwards bits 0..2 of
\* interrupt enable are 0b111, bits 4..6 of sensitivity control are 0x06 and
\* bit 0 of main control is 0.
C1_ConstructionBringUp ==
    ( /\ Constructing
      /\ \E i \in ProbeTxs : log[i].ok
      /\ \A i \in RegisterTxs : log[i].ok )
    => /\ Ok
       /\ instance
       /\ FieldAt(regs[INTERRUPT_ENABLE], 0, 3) = 7
       /\ FieldAt(regs[SENSITIVITY_CONTROL], 4, 3) = 6
       /\ BitAt(regs[MAIN_CONTROL], 0) = 0

\* C1 witness: a construction that succeeded after a tolerated probe error, on
\* registers that held other pads, another sensitivity and a raised latch.
C1_Witness ==
    /\ Constructing
    /\ Ok
    /\ \E i \in ProbeTxs : ~log[i].ok
    /\ FieldAt(pre[INTERRUPT_ENABLE], 0, 3) # 7
    /\ FieldAt(pre[SENSITIVITY_CONTROL], 4, 3) # 6
    /\ BitAt(pre[MAIN_CONTROL], 0) = 1
    /\ FieldAt(regs[INTERRUPT_ENABLE], 0, 3) = 7

\* C2: constructing the driver with an address other than 0x28 fails with the
\* invalid-address error before any bus transaction (probe read, register
\* read, register write), whatever transport is passed.
C2_InvalidAddressNoBus ==
    (op = "__init__" /\ arg.address # ADDRESS)
    => /\ err = InvalidAddress
       /\ log = <<>>
       /\ regs = pre
       /\ ~instance

\* C2 witness: address 0x29 with a usable transport is rejected.
C2_Witness ==
    /\ op = "__init__"
    /\ arg.address = ADDRESS + 1
    /\ arg.bus = "SMBus"
    /\ err = InvalidAddress

\* C3: if the transport raises on every probe attempt, construction fails with
\* the not-connected error after exactly 5 probe reads and no register read or
\* write is issued, so every register keeps its initial value.
C3_ProbeExhausted ==
    (Constructing /\ \A i \in ProbeTxs : ~log[i].ok)
    => /\ err = NotConnected
       /\ Len(log) = 5
       /\ RegisterTxs = {}
       /\ regs = pre
       /\ ~instance

\* C3 witness: a construction whose five probe reads all raised.
C3_Witness ==
    /\ Constructing
    /\ err = NotConnected
    /\ Cardinality(ProbeTxs) = 5

\* C4: get_touched() returns exactly the pad set in bits 0..2 of the touch
\* status register, and clears the interrupt latch (one write of main control
\* with bit 0 = 0) iff that set is non-empty; with an empty set it issues no
\* bus write at all.
C4_GetTouched ==
    /\ (op = "get_touched" /\ Ok)
       => /\ ret = PadOf(PadsIn(pre[SENSOR_INPUT_STATUS]))
          /\ ClearsIffPositive(PadsIn(pre[SENSOR_INPUT_STATUS]) # {})
    /\ (op = "get_touched" /\ PadsIn(pre[SENSOR_INPUT_STATUS]) = {})
       => WriteTxs = {}

\* C4 witness: touch status 0b010 with a raised latch: get_touched() returned
\* {Middle} and cleared the latch.
C4_Witness ==
    /\ op = "get_touched"
    /\ Ok
    /\ FieldAt(pre[SENSOR_INPUT_STATUS], 0, 3) = 2
    /\ ret = PadOf({"Middle"})
    /\ BitAt(pre[MAIN_CONTROL], 0) = 1
    /\ BitAt(regs[MAIN_CONTROL], 0) = 0

\* the pad a per-pad query asks about
PadQueries ==
    [is_left_touched |-> "Left", is_middle_touched |-> "Middle",
     is_right_touched |-> "Right"]

\* C5: each per-pad query returns true iff its pad's bit is set in the touch
\* status register, whatever the other pads' bits, and clears the interrupt
\* latch iff it returns true (no bus write when it returns false).
C5_PadQueries ==
    \A q \in DOMAIN PadQueries :
        /\ (op = q /\ Ok)
           => /\ ret = PyBool(PadQueries[q] \in PadsIn(pre[SENSOR_INPUT_STATUS]))
              /\ ClearsIffPositive(ret.v)
        /\ (op = q /\ PadQueries[q] \notin PadsIn(pre[SENSOR_INPUT_STATUS]))
           => WriteTxs = {}

\* C5 witness: touch status 0b101: the Middle query returned false and wrote
\* nothing.
C5_Witness ==
    /\ op = "is_middle_touched"
    /\ Ok
    /\ FieldAt(pre[SENSOR_INPUT_STATUS], 0, 3) = 5
    /\ ret = PyBool(FALSE)
    /\ log # <<>>
    /\ WriteTxs = {}

\* the general-status bit a status query reads
StatusQueries == [is_touched |-> 0, is_power_button_touched |-> 4]

\* C6: is_touched() returns bit 0 of the general status register and
\* is_power_button_touched() returns its bit 4; each clears the interrupt
\* latch when it returns true and issues no bus write when it returns false.
C6_StatusQueries ==
    \A q \in DOMAIN StatusQueries :
        /\ (op = q /\ Ok)
           => /\ ret = PyBool(BitAt(pre[GENERAL_STATUS], StatusQueries[q]) = 1)
              /\ ClearsIffPositive(ret.v)
        /\ (op = q /\ BitAt(pre[GENERAL_STATUS], StatusQueries[q]) = 0)
           => WriteTxs = {}

\* C6 witness: power-button bit set while the aggregate touch bit is clear:
\* is_power_button_touched() returned true and cleared a raised latch.
C6_Witness ==
    /\ op = "is_power_button_touched"
    /\ Ok
    /\ BitAt(pre[GENERAL_STATUS], 4) = 1
    /\ BitAt(pre[GENERAL_STATUS], 0) = 0
    /\ ret = PyBool(TRUE)
    /\ BitAt(pre[MAIN_CONTROL], 0) = 1
    /\ BitAt(regs[MAIN_CONTROL], 0) = 0

\* C7: check_status() returns the pads flagged in the base-count-out register,
\* counted only when general status bit 6 (base count out of range) is set,
\* united with the pads flagged in the calibration-status register, counted
\* only when general status bit 5 (calibration failed) is set; with both bits
\* clear the result is the empty set.
C7_CheckStatusGated ==
    (op = "check_status" /\ Ok)
    => ret = PadOf(
                 (IF BitAt(pre[GENERAL_STATUS], 6) = 1
                  THEN PadsIn(pre[BASE_COUNT_OUT]) ELSE {})
                 \cup
                 (IF BitAt(pre[GENERAL_STATUS], 5) = 1
                  THEN PadsIn(pre[CALIBRATION_ACTIVATE_AND_STATUS]) ELSE {}))

ReadOnlyOps ==
    { "check_touched", "check_status", "get_sensitivity", "get_interrupt_setting",
      "get_power_button_pad", "get_power_button_time", "get_power_button_setting" }

\* C8: check_touched(), check_status() and the configuration getters never
\* issue a bus write: after any of them every register, the interrupt latch
\* included, has the value it had before the call.
C8_ReadOnly ==
    op \in ReadOnlyOps => WriteTxs = {} /\ regs = pre

\* C8 witness: check_touched() reported touched pads and left a raised latch
\* raised.
C8_Witness ==
    /\ op = "check_touched"
    /\ Ok
    /\ ret.v # {}
    /\ BitAt(pre[MAIN_CONTROL], 0) = 1
    /\ BitAt(regs[MAIN_CONTROL], 0) = 1

\* the pads set_interrupt_setting(enable) is asked to enable
RequestedPads(enable) ==
    IF enable.type = "Pad" THEN enable.v
    ELSE IF enable.v THEN PadNames ELSE {}

\* C9: set_interrupt_setting replaces the 3-bit interrupt-enable field: for
\* every previous register value and every pad set P the getter afterwards
\* returns exactly P; boolean true enables all three pads, false none.
C9_InterruptSettingReplaces ==
    /\ (op = "set_interrupt_setting" /\ Ok)
       => /\ PadsIn(regs[INTERRUPT_ENABLE]) = RequestedPads(arg)
          /\ get_interrupt_setting(Ctx(regs, {})).val = PadOf(RequestedPads(arg))
    /\ (op = "get_interrupt_setting" /\ Ok)
       => ret = PadOf(PadsIn(pre[INTERRUPT_ENABLE]))

\* C9 witness: Left and Right were enabled, set_interrupt_setting({Middle})
\* left exactly Middle enabled.
C9_Witness ==
    /\ op = "set_interrupt_setting"
    /\ Ok
    /\ arg = PadOf({"Middle"})
    /\ PadsIn(pre[INTERRUPT_ENABLE]) = {"Left", "Right"}
    /\ PadsIn(regs[INTERRUPT_ENABLE]) = {"Middle"}

\* C10: codec round trip: for every byte b, value v, offset and width with
\* width >= 1 and offset + width <= 8, get_bits(set_bits(b, v, offset, width),
\* offset, width) equals v masked to width bits; with width 1 get_bits yields
\* a boolean, equal to the masked bit.
C10_CodecRoundTrip ==
    codec.stage = "got"
    => /\ PyEq(codec.back, PyIntOf(codec.value % Pow2(codec.length)))
       /\ codec.back.type = (IF codec.length = 1 THEN "bool" ELSE "int")

\* C10 witness: a one-bit field written with a value wider than the field
\* whose low bit differs from the bit the byte held.
C10_Witness ==
    /\ codec.stage = "got"
    /\ codec.length = 1
    /\ codec.value > 1
    /\ BitAt(codec.register, codec.index) # codec.value % 2
    /\ codec.back = PyBool(codec.value % 2 = 1)


\* C11: set_bits never alters a bit outside the target span: for every byte,
\* every value (also one wider than the field) and every offset and width
\* with offset + width <= 8, each bit of the result below the offset or at or
\* above offset + width equals that bit of the input byte, and the result is
\* still a byte in 0..255.
C11_SetBitsFrame ==
    codec.stage \in {"set", "got"}
    => /\ codec.out \in Byte
       /\ \A i \in 0..7 :
              (i < codec.index \/ i >= codec.index + codec.length)
              => BitAt(codec.out, i) = BitAt(codec.register, i)

\* C11 witness: a value wider than its field, with bits set beyond the
\* field's width, was written into a field that has bits on both sides, and
\* the byte changed.
C11_Witness ==
    /\ codec.stage = "set"
    /\ codec.index > 0
    /\ codec.index + codec.length < 8
    /\ codec.value >= Pow2(8 - codec.index)
    /\ codec.out # codec.register
    /\ codec.register \div Pow2(codec.index + codec.length) # 0
    /\ codec.register % Pow2(codec.index) # 0

\* C12: clear_interrupt is idempotent: after a call that completed, bit 0 of
\* main control is 0 and a second call made straight after it (the device
\* changing nothing in between) completes and leaves every register exactly
\* as the first call left it; a call made while the latch is already clear
\* changes no register.
C12_ClearInterruptIdempotent ==
    (op = "clear_interrupt" /\ Ok)
    => LET again == clear_interrupt(Ctx(regs, {}))
       IN  /\ BitAt(regs[MAIN_CONTROL], 0) = 0
           /\ again.err = NoError
           /\ again.regs = regs
           /\ BitAt(again.regs[MAIN_CONTROL], 0) = 0
           /\ BitAt(pre[MAIN_CONTROL], 0) = 0 => regs = pre

\* C12 witness: a call that cleared a raised latch, after which a second call
\* still issues its read and its write and changes nothing.
C12_Witness ==
    /\ op = "clear_interrupt"
    /\ Ok
    /\ BitAt(pre[MAIN_CONTROL], 0) = 1
    /\ regs # pre
    /\ LET again == clear_interrupt(Ctx(regs, {}))
       IN  /\ Len(again.log) = 2
           /\ again.log[2].kind = "write"
           /\ again.regs = regs

\* the calls made on a constructed driver that read or write registers
FunctionalCall == op \notin {"none", "__init__", "is_connected"}

\* C13: on a constructed driver a register operation never retries and never
\* swallows a transport error: no transaction is issued twice within a call,
\* a transaction that raised is the last one of its call and the call ends
\* with that same OSError, a call ends with an error only when its last
\* transaction raised, and when the first transaction (the read half of a
\* read-modify-write setter) raises, no write is issued and every register
\* is unchanged.
C13_NoRetryNoSwallow ==
    FunctionalCall
    => /\ \A i \in 1..Len(log) : ~log[i].ok => (i = Len(log) /\ err = OSError)
       /\ ~Ok => (err = OSError /\ log # <<>> /\ ~log[Len(log)].ok)
       /\ \A i, j \in 1..Len(log) :
              i < j => ~(log[i].kind = log[j].kind /\ log[i].reg = log[j].reg)
       /\ (log # <<>> /\ log[1].kind = "read" /\ ~log[1].ok)
          => (WriteTxs = {} /\ Len(log) = 1 /\ regs = pre)
       /\ (\A i \in WriteTxs : ~log[i].ok) => regs = pre

\* C13 witness: set_power_button_time whose read raised: the call ended with
\* OSError after that one transaction and the register still holds another
\* duration than the one requested.
C13_Witness ==
    /\ op = "set_power_button_time"
    /\ err = OSError
    /\ Len(log) = 1
    /\ log[1].kind = "read"
    /\ log[1].reg = POWER_BUTTON_CONFIG
    /\ regs = pre
    /\ FieldAt(regs[POWER_BUTTON_CONFIG], 0, 2) # IntValue(arg)

BothReturned == \A t \in Threads : race.pc[t] = "returned"

TimeKept == FieldAt(regs[POWER_BUTTON_CONFIG], 0, 2) = IntValue(race.time)

EnableKept == BitAt(regs[POWER_BUTTON_CONFIG], 2) = IntValue(race.enabled)

\* C14: the read-modify-write of a setter is not atomic.  When
\* set_power_button_time and set_power_button run on the same driver and each
\* call's read and write run as one serialized unit, the power button
\* configuration register reflects both updates once both calls have
\* returned, and its bits 3..7 are as before; when their bus transactions
\* interleave, the register still reflects the update of at least one call,
\* and a state where it reflects only one (a lost update) is reachable.
C14_SerializedKeepsBoth ==
    BothReturned
    => /\ race.mode = "serialized" => (TimeKept /\ EnableKept)
       /\ TimeKept \/ EnableKept
       /\ regs[POWER_BUTTON_CONFIG] \div 8 = pre[POWER_BUTTON_CONFIG] \div 8
       /\ \A r \in Registers \ {POWER_BUTTON_CONFIG} : regs[r] = pre[r]

\* C14 lost update: both calls returned after interleaving read, read, write,
\* write, and the register holds the requested enable bit but still the old
\* duration, which is not the one requested.
C14_Witness ==
    /\ BothReturned
    /\ race.mode = "interleaved"
    /\ EnableKept
    /\ ~TimeKept
    /\ FieldAt(regs[POWER_BUTTON_CONFIG], 0, 2) = FieldAt(pre[POWER_BUTTON_CONFIG], 0, 2)
    /\ BitAt(regs[POWER_BUTTON_CONFIG], 2) # BitAt(pre[POWER_BUTTON_CONFIG], 2)
    /\ Len(log) = 4
    /\ log[1].kind = "read" /\ log[2].kind = "read"
    /\ log[3].kind = "write" /\ log[4].kind = "write"

\* the register-modifying operations other than reset, and the field each owns
Modifiers == {"set_sensitivity", "set_interrupt_setting", "clear_interrupt",
              "set_power_button_pad", "set_power_button_time", "set_power_button"}

ModifierField(name) ==
    CASE name = "set_sensitivity" -> [reg |-> SENSITIVITY_CONTROL, index |-> 4, length |-> 3]
      [] name = "set_interrupt_setting" -> [reg |-> INTERRUPT_ENABLE, index |-> 0, length |-> 3]
      [] name = "clear_interrupt" -> [reg |-> MAIN_CONTROL, index |-> 0, length |-> 1]
      [] name = "set_power_button_pad" -> [reg |-> POWER_BUTTON, index |-> 0, length |-> 3]
      [] name = "set_power_button_time" -> [reg |-> POWER_BUTTON_CONFIG, index |-> 0, length |-> 2]
      [] name = "set_power_button" -> [reg |-> POWER_BUTTON_CONFIG, index |-> 2, length |-> 1]

\* C15: every register-modifying operation other than reset touches only its
\* own register, reading it first and writing it second; when the call
\* completes it has issued exactly one read of that register, which returned
\* the register's content, followed by exactly one write of a full byte to
\* the same register, the byte written differs from the byte read only
\* inside the operation's field, and afterwards the register holds the byte
\* written and every other register is unchanged.
C15_ReadModifyWrite ==
    op \in Modifiers
    => LET f == ModifierField(op)
       IN  /\ Len(log) \in 1..2
           /\ \A i \in 1..Len(log) : log[i].reg = f.reg
           /\ log[1].kind = "read"
           /\ Len(log) = 2 => log[2].kind = "write"
           /\ Ok => /\ Len(log) = 2
                    /\ log[1] = Tx("read", f.reg, pre[f.reg], TRUE)
                    /\ log[2].ok
                    /\ log[2].val \in Byte
                    /\ \A i \in 0..7 :
                           (i < f.index \/ i >= f.index + f.length)
                           => BitAt(log[2].val, i) = BitAt(log[1].val, i)
                    /\ regs = [pre EXCEPT ![f.reg] = log[2].val]

\* C15 witness: set_power_button changed the enable bit of a power button
\* configuration byte that has bits set on both sides of it.
C15_Witness ==
    /\ op = "set_power_button"
    /\ Ok
    /\ Len(log) = 2
    /\ log[2].val # log[1].val
    /\ FieldAt(pre[POWER_BUTTON_CONFIG], 0, 2) # 0
    /\ pre[POWER_BUTTON_CONFIG] \div 8 # 0
    /\ regs[POWER_BUTTON_CONFIG] = log[2].val

SucceededProbes == {i \in ProbeTxs : log[i].ok}

\* C16: the connection probe is a bounded retry.  Whatever the transport
\* does on the probe reads, is_connected (called directly or by the
\* constructor) issues at most five read_byte transactions, before any
\* register transaction, issues none after one that succeeded, gives up only
\* after five errors, and reports connected exactly when one of its reads
\* succeeded; called directly it raises nothing, touches no register and
\* returns that answer; the constructor raises the cannot-connect error
\* exactly when no read succeeded.
C16_BoundedProbe ==
    (op = "is_connected" \/ Constructing)
    => /\ Cardinality(ProbeTxs) <= ProbeAttempts
       /\ ProbeTxs = 1..Cardinality(ProbeTxs)
       /\ \A i \in SucceededProbes : i = Cardinality(ProbeTxs)
       /\ SucceededProbes = {} => Cardinality(ProbeTxs) = ProbeAttempts
       /\ op = "is_connected"
          => /\ Ok
             /\ ret = PyBool(SucceededProbes # {})
             /\ Len(log) = Cardinality(ProbeTxs)
             /\ regs = pre
       /\ Constructing => (err = NotConnected <=> SucceededProbes = {})

\* C16 witness: a direct probe that reported connected on its fifth read,
\* after four errors.
C16_Witness ==
    /\ op = "is_connected"
    /\ ret = PyBool(TRUE)
    /\ Len(log) = ProbeAttempts
    /\ SucceededProbes = {ProbeAttempts}

Getters == {"get_sensitivity", "get_interrupt_setting", "check_touched",
            "get_power_button_pad", "get_power_button_time", "get_power_button_setting"}

GetterRegister(name) ==
    CASE name = "get_sensitivity" -> SENSITIVITY_CONTROL
      [] name = "get_interrupt_setting" -> INTERRUPT_ENABLE
      [] name = "check_touched" -> SENSOR_INPUT_STATUS
      [] name = "get_power_button_pad" -> POWER_BUTTON
      [] name = "get_power_button_time" -> POWER_BUTTON_CONFIG
      [] name = "get_power_button_setting" -> POWER_BUTTON_CONFIG

\* what the getter returns when its register holds byte b
Decoded(name, b) ==
    CASE name = "get_sensitivity" -> SensitivityOf(SensitivityNames[FieldAt(b, 4, 3) + 1])
      [] name = "get_power_button_time" -> PowerTimeOf(PowerTimeNames[FieldAt(b, 0, 2) + 1])
      [] name = "get_power_button_setting" -> PyBool(BitAt(b, 2) = 1)
      [] OTHER -> PadOf(PadsIn(b))

\* C17: the driver caches nothing: every call of a getter issues exactly one
\* bus transaction, a read of the getter's register, and a call that
\* completes has read the content the register holds at the time of the call
\* and returns the field decoded from it, changing no register; so after the
\* device changed the register, the next call returns the new value.
C17_NoCaching ==
    op \in Getters
    => /\ Len(log) = 1
       /\ log[1].kind = "read"
       /\ log[1].reg = GetterRegister(op)
       /\ regs = pre
       /\ Ok => /\ log[1] = Tx("read", GetterRegister(op), pre[GetterRegister(op)], TRUE)
                /\ ret.type = Decoded(op, pre[GetterRegister(op)]).type
                /\ ret = Decoded(op, pre[GetterRegister(op)])

\* C17 witness: get_power_button_time called after the device replaced the
\* content of the power button configuration register (the power button
\* register still holds the content both had at construction) returns the
\* new duration, which is not the one the register held before.
C17_Witness ==
    /\ op = "get_power_button_time"
    /\ Ok
    /\ updates > 0
    /\ pre[POWER_BUTTON_CONFIG] # pre[POWER_BUTTON]
    /\ FieldAt(pre[POWER_BUTTON_CONFIG], 0, 2) # FieldAt(pre[POWER_BUTTON], 0, 2)
    /\ ret = PowerTimeOf(PowerTimeNames[FieldAt(pre[POWER_BUTTON_CONFIG], 0, 2) + 1])

\* C18: reset performs exactly one bus transaction: a write of 0x07 to the
\* calibration register 0x26, with no read before it and nothing after it.
\* When the write is acknowledged the register holds 0x07 and every other
\* register is unchanged; when it raises, the call ends with that error and
\* no register has changed.
C18_ResetBlindWrite ==
    op = "reset"
    => /\ Len(log) = 1
       /\ log[1].kind = "write"
       /\ log[1].reg = CALIBRATION_ACTIVATE_AND_STATUS
       /\ log[1].val = RESET_COMMAND
       /\ log[1].ok = Ok
       /\ Ok => regs = [pre EXCEPT ![CALIBRATION_ACTIVATE_AND_STATUS] = RESET_COMMAND]
       /\ ~Ok => (err = OSError /\ regs = pre)

\* C18 witness: a completed reset on a calibration register that held bits
\* above the three calibration bits, which the blind write overwrote.
C18_Witness ==
    /\ op = "reset"
    /\ Ok
    /\ pre[CALIBRATION_ACTIVATE_AND_STATUS] \div 8 # 0
    /\ regs[CALIBRATION_ACTIVATE_AND_STATUS] = RESET_COMMAND
    /\ regs # pre

\* the getter paired with the setter just called, run on the registers the
\* setter left, on a responsive transport
GetBack ==
    CASE op = "set_sensitivity" -> get_sensitivity(Ctx(regs, {}))
      [] op = "set_power_button_pad" -> get_power_button_pad(Ctx(regs, {}))
      [] op = "set_power_button_time" -> get_power_button_time(Ctx(regs, {}))
      [] op = "set_power_button" -> get_power_button_setting(Ctx(regs, {}))

\* C19: setter/getter round trip: after set_sensitivity(l), for each of the
\* eight levels, get_sensitivity returns l; after set_power_button_pad(P),
\* for each of the eight pad sets, get_power_button_pad returns P; after
\* set_power_button_time(t), for each of the four durations,
\* get_power_button_time returns t; after set_power_button(e),
\* get_power_button_setting returns e; whatever the registers held and
\* whichever setters ran before the pair.
C19_SetGetRoundTrip ==
    ( /\ op \in {"set_sensitivity", "set_power_button_pad",
                 "set_power_button_time", "set_power_button"}
      /\ Ok )
    => /\ GetBack.err = NoError
       /\ GetBack.val.type = arg.type
       /\ GetBack.val = arg
       /\ GetBack.regs = regs

\* C19 witness: set_power_button_pad, called after another setter had run,
\* replaced a different non-empty pad set by a non-empty one, and
\* get_power_button_pad returns the new set.
C19_Witness ==
    /\ op = "set_power_button_pad"
    /\ Ok
    /\ setterCalls > 1
    /\ arg.v # {}
    /\ PadsIn(pre[POWER_BUTTON]) \notin {{}, arg.v}
    /\ get_power_button_pad(Ctx(regs, {})).val = arg

\* the register transactions of a construction, in the order the constructor
\* issues them
BringUp ==
    << [kind |-> "read", reg |-> SENSITIVITY_CONTROL],
       [kind |-> "write", reg |-> SENSITIVITY_CONTROL],
       [kind |-> "read", reg |-> INTERRUPT_ENABLE],
       [kind |-> "write", reg |-> INTERRUPT_ENABLE],
       [kind |-> "read", reg |-> MAIN_CONTROL],
       [kind |-> "write", reg |-> MAIN_CONTROL] >>

\* C20: construction ordering: the constructor issues no register read or
\* write before a probe read has succeeded; after it, it issues read then
\* write of sensitivity control 0x1F, read then write of interrupt enable
\* 0x27, read then write of main control 0x00, in that order and nothing
\* else; if one of these transactions raises, it is the last transaction of
\* the construction, which fails with that error and yields no instance; the
\* construction succeeds exactly when all six were acknowledged.
C20_ConstructionOrder ==
    Constructing
    => LET n == Cardinality(ProbeTxs)
           m == Len(log) - n
       IN  /\ ProbeTxs = 1..n
           /\ m > 0 => (n > 0 /\ log[n].ok)
           /\ m <= Len(BringUp)
           /\ \A k \in 1..m : /\ log[n + k].kind = BringUp[k].kind
                              /\ log[n + k].reg = BringUp[k].reg
           /\ \A k \in 1..m : ~log[n + k].ok
                              => (k = m /\ err = OSError /\ ~instance)
           /\ Ok <=> (m = Len(BringUp) /\ \A k \in 1..m : log[n + k].ok)
           /\ (SucceededProbes # {} /\ \A k \in 1..m : log[n + k].ok) => m = Len(BringUp)

\* C20 witness: a construction whose probe succeeded at the second read,
\* which wrote the sensitivity, and whose read of interrupt enable raised:
\* it failed with OSError after that third register transaction.
C20_Witness ==
    /\ Constructing
    /\ err = OSError
    /\ ~instance
    /\ Cardinality(ProbeTxs) = 2
    /\ Len(log) = 5
    /\ log[4].kind = "write" /\ log[4].reg = SENSITIVITY_CONTROL /\ log[4].ok
    /\ log[5].kind = "read" /\ log[5].reg = INTERRUPT_ENABLE /\ ~log[5].ok
    /\ regs[SENSITIVITY_CONTROL] # pre[SENSITIVITY_CONTROL]
    /\ regs[INTERRUPT_ENABLE] = pre[INTERRUPT_ENABLE]

====
